---- MODULE Spec2Model ----
(***************************************************************************)
(* Model of audlib.data.wsj: the WSJ index/transcript readers and the two  *)
(* lazy dataset views (WSJ and ASRWSJ).                                    *)
(*                                                                         *)
(* A Python str is a sequence of one-character strings; a dict is a        *)
(* function whose DOMAIN is the set of keys; a list is a sequence.         *)
(***************************************************************************)
EXTENDS Integers, Sequences, FiniteSets, TLC

VARIABLES
    line,       \* fix_path: the raw index line handed to it
    fixed,      \* fix_path: its return value (NotCalled before the call)
    dotlines,   \* dot2transcripts: the lines of the .dot file at dotpath
    parsed,     \* dot2transcripts: its outcome (a dict, or IndexError raised)
    idxlines,   \* idx2paths: the lines of the index file at idxpath
    out,        \* idx2paths: the list it returns
    pc,         \* "start" before the call of a pure-function specification, "done" after
    train,      \* the partition selector (WSJ.train / idx2paths' train)
    disk,       \* the regular files that exist, as full paths
    idxfiles,   \* the index files the partition's glob yields, in glob order
    filt,       \* WSJ.filt: None, or a callable given by the paths it accepts
    transform,  \* whether WSJ.transform is configured
    ret,        \* the outcome of the latest dataset request
    dotfiles,   \* the .dot files the partition's glob yields, in glob order
    transmap,   \* the vocabulary collaborator: transcribable and trans2oov
    oovs,       \* ASRWSJ.oovs: [set, tab], set FALSE until valid_files assigns it
    nreq        \* the number of ASRWSJ requests made so far

vars == <<line, fixed, dotlines, parsed, idxlines, out, pc, train, disk,
          idxfiles, filt, transform, ret, dotfiles, transmap, oovs, nreq>>

NotCalled == <<"<not called>">>
NoOutcome == [kind |-> "not called", val |-> <<>>]

(***************************************************************************)
(* Bounds of the model.                                                    *)
(***************************************************************************)
MaxLineLen == 6
MaxDotLines == 3
MaxIdxLines == 3
MaxFileLines == 1
MaxIndex == 2
MaxRequests == 2

RECURSIVE SeqsUpTo(_, _)
SeqsUpTo(S, n) ==
    IF n = 0 THEN {<<>>}
    ELSE LET shorter == SeqsUpTo(S, n - 1)
         IN  shorter \cup {Append(s, x) : s \in {t \in shorter : Len(t) = n - 1}, x \in S}

(***************************************************************************)
(* Python str primitives.                                                  *)
(***************************************************************************)
\* str.find(ch) from position i on (1-based); 0 when ch does not occur
RECURSIVE find(_, _, _)
find(s, ch, i) ==
    IF i > Len(s) THEN 0 ELSE IF s[i] = ch THEN i ELSE find(s, ch, i + 1)

\* str.replace(old, new, count) for a one-character old: the leftmost
\* occurrences are replaced, at most count of them; count < 0 is "all".
RECURSIVE replace(_, _, _, _)
replace(s, old, new, count) ==
    IF count = 0 THEN s
    ELSE LET i == find(s, old, 1)
         IN  IF i = 0 THEN s
             ELSE SubSeq(s, 1, i - 1) \o new
                      \o replace(SubSeq(s, i + 1, Len(s)), old, new, count - 1)

\* fix_path with the count argument of the underscore replacements forgotten
fix_path_nocount(path) ==
    replace(replace(replace(replace(path, " ", <<>>, -1),
                            "_", <<"-">>, -1),
                    "_", <<".">>, -1),
            ":", <<"/">>, 1)

\* wsj.py:64-69
fix_path(path) ==
    replace(replace(replace(replace(path, " ", <<>>, -1),
                            "_", <<"-">>, 1),
                    "_", <<".">>, 1),
            ":", <<"/">>, 1)


\* str.strip(): leading and trailing whitespace removed.
RECURSIVE lstrip(_)
lstrip(s) == IF s # <<>> /\ Head(s) = " " THEN lstrip(Tail(s)) ELSE s

RECURSIVE rstrip(_)
rstrip(s) ==
    IF s # <<>> /\ s[Len(s)] = " " THEN rstrip(SubSeq(s, 1, Len(s) - 1)) ELSE s

strip(s) == rstrip(lstrip(s))

\* str.startswith(prefix)
startswith(s, prefix) ==
    Len(s) >= Len(prefix) /\ SubSeq(s, 1, Len(prefix)) = prefix

\* str.split(sep) for a one-character sep: the list of (possibly empty) fields.
RECURSIVE split_on(_, _)
split_on(s, sep) ==
    LET i == find(s, sep, 1)
    IN  IF i = 0 THEN <<s>>
        ELSE <<SubSeq(s, 1, i - 1)>> \o split_on(SubSeq(s, i + 1, Len(s)), sep)

\* str.split() with no argument: the non-empty runs between whitespace.
split(s) == SelectSeq(split_on(s, " "), LAMBDA w : w # <<>>)

\* sep.join(words)
RECURSIVE join(_, _)
join(sep, words) ==
    IF words = <<>> THEN <<>>
    ELSE IF Len(words) = 1 THEN words[1]
         ELSE words[1] \o sep \o join(sep, Tail(words))

LowerCase == <<"a", "b", "c", "d", "e", "f", "g", "h", "i", "j", "k", "l", "m",
               "n", "o", "p", "q", "r", "s", "t", "u", "v", "w", "x", "y", "z">>
UpperCase == <<"A", "B", "C", "D", "E", "F", "G", "H", "I", "J", "K", "L", "M",
               "N", "O", "P", "Q", "R", "S", "T", "U", "V", "W", "X", "Y", "Z">>

UpperOf == [c \in {LowerCase[k] : k \in 1..Len(LowerCase)} |->
               UpperCase[CHOOSE k \in 1..Len(LowerCase) : LowerCase[k] = c]]

\* str.upper()
upper(s) ==
    [i \in 1..Len(s) |-> IF s[i] \in DOMAIN UpperOf THEN UpperOf[s[i]] ELSE s[i]]

\* s[1:-1]
slice_1_m1(s) == SubSeq(s, 2, Len(s) - 1)

\* dict.update / d[k] = v
dict_set(d, k, v) == [x \in DOMAIN d \cup {k} |-> IF x = k THEN v ELSE d[x]]

dict_update(d, e) ==
    [x \in DOMAIN d \cup DOMAIN e |-> IF x \in DOMAIN e THEN e[x] ELSE d[x]]

(***************************************************************************)
(* The file system.  root is the corpus root handed to the constructors.   *)
(***************************************************************************)
root == <<"/", "r">>

\* os.path.join(a, b)
path_join(a, b) ==
    IF b # <<>> /\ Head(b) = "/" THEN b
    ELSE IF a = <<>> \/ a[Len(a)] = "/" THEN a \o b
         ELSE a \o <<"/">> \o b

\* A directory exists when a file lies below it; root holds the index files
\* that are being read, so it exists.
isdir(d, p) ==
    \/ p = root
    \/ \E f \in d : /\ Len(f) > Len(p) + 1
                    /\ SubSeq(f, 1, Len(p)) = p
                    /\ f[Len(p) + 1] = "/"

\* os.path.exists(p)
path_exists(d, p) ==
    IF p = <<>> THEN FALSE
    ELSE IF p[Len(p)] = "/" THEN isdir(d, SubSeq(p, 1, Len(p) - 1))
         ELSE p \in d \/ isdir(d, p)

(***************************************************************************)
(* dot2transcripts (wsj.py:21-43).  The outcome is [kind, val]: kind "ok"  *)
(* with the dict, or "IndexError" raised by line[-1] on a line without     *)
(* tokens.                                                                 *)
(***************************************************************************)
\* the loop with the key taken as the whole trailing token
RECURSIVE dot_loop_rawkey(_, _)
dot_loop_rawkey(lines, transcripts) ==
    IF lines = <<>> THEN [kind |-> "ok", val |-> transcripts]
    ELSE LET toks == split(strip(Head(lines)))
         IN  IF toks = <<>> THEN [kind |-> "IndexError", val |-> <<>>]
             ELSE LET trans == join(<<" ">>, SubSeq(toks, 1, Len(toks) - 1))
                      uid   == toks[Len(toks)]
                  IN  dot_loop_rawkey(Tail(lines),
                                      dict_set(transcripts, uid, upper(trans)))

RECURSIVE dot_loop(_, _)
dot_loop(lines, transcripts) ==
    IF lines = <<>> THEN [kind |-> "ok", val |-> transcripts]
    ELSE LET toks == split(strip(Head(lines)))
         IN  IF toks = <<>> THEN [kind |-> "IndexError", val |-> <<>>]
             ELSE LET trans == join(<<" ">>, SubSeq(toks, 1, Len(toks) - 1))
                      uid   == slice_1_m1(toks[Len(toks)])
                  IN  dot_loop(Tail(lines), dict_set(transcripts, uid, upper(trans)))

dot2transcripts(lines) == dot_loop(lines, <<>>)

(***************************************************************************)
(* idx2paths (wsj.py:46-98).  Lines are held without their newline, which  *)
(* strip() removes and startswith(';') never looks at.                     *)
(***************************************************************************)
WV1 == <<".", "w", "v", "1">>
WV2 == <<".", "w", "v", "2">>

\* the train branch keeping every resolved path, verified or not
RECURSIVE idx_train_unverified(_, _)
idx_train_unverified(lines, d) ==
    IF lines = <<>> THEN <<>>
    ELSE IF startswith(Head(lines), <<";">>) THEN idx_train_unverified(Tail(lines), d)
    ELSE <<fix_path(strip(Head(lines)))>> \o idx_train_unverified(Tail(lines), d)

RECURSIVE idx_train(_, _)
idx_train(lines, d) ==
    IF lines = <<>> THEN <<>>
    ELSE IF startswith(Head(lines), <<";">>) THEN idx_train(Tail(lines), d)
    ELSE LET fpath == fix_path(strip(Head(lines)))
         IN  IF path_exists(d, path_join(root, fpath))
             THEN <<fpath>> \o idx_train(Tail(lines), d)
             ELSE idx_train(Tail(lines), d)

\* the test branch with the two fallbacks tried in the other order
RECURSIVE idx_test_wv2first(_, _)
idx_test_wv2first(lines, d) ==
    IF lines = <<>> THEN <<>>
    ELSE IF startswith(Head(lines), <<";">>) THEN idx_test_wv2first(Tail(lines), d)
    ELSE LET fpath == fix_path(strip(Head(lines)))
         IN  IF path_exists(d, path_join(root, fpath))
             THEN <<fpath>> \o idx_test_wv2first(Tail(lines), d)
             ELSE IF path_exists(d, path_join(root, fpath \o WV2))
             THEN <<fpath \o WV2>> \o idx_test_wv2first(Tail(lines), d)
             ELSE IF path_exists(d, path_join(root, fpath \o WV1))
             THEN <<fpath \o WV1>> \o idx_test_wv2first(Tail(lines), d)
             ELSE idx_test_wv2first(Tail(lines), d)

RECURSIVE idx_test(_, _)
idx_test(lines, d) ==
    IF lines = <<>> THEN <<>>
    ELSE IF startswith(Head(lines), <<";">>) THEN idx_test(Tail(lines), d)
    ELSE LET fpath == fix_path(strip(Head(lines)))
         IN  IF path_exists(d, path_join(root, fpath))
             THEN <<fpath>> \o idx_test(Tail(lines), d)
             ELSE IF path_exists(d, path_join(root, fpath \o WV1))
             THEN <<fpath \o WV1>> \o idx_test(Tail(lines), d)
             ELSE IF path_exists(d, path_join(root, fpath \o WV2))
             THEN <<fpath \o WV2>> \o idx_test(Tail(lines), d)
             ELSE idx_test(Tail(lines), d)

idx2paths(lines, d, tr) == IF tr THEN idx_train(lines, d) ELSE idx_test(lines, d)

(***************************************************************************)
(* WSJ (wsj.py:101-185).                                                   *)
(***************************************************************************)
FiltNone == [kind |-> "None", accept |-> {}]
Callable(S) == [kind |-> "callable", accept |-> S]

\* filter(f, xs): with f None the truthy items, i.e. the non-empty strings
py_filter(f, xs) ==
    IF f.kind = "None" THEN SelectSeq(xs, LAMBDA x : x # <<>>)
    ELSE SelectSeq(xs, LAMBDA x : x \in f.accept)

\* xs[idx] of a list: [kind, val], kind "IndexError" when idx is out of range
py_getitem(xs, idx) ==
    IF 0 <= idx /\ idx < Len(xs) THEN [kind |-> "ok", val |-> xs[idx + 1]]
    ELSE IF idx < 0 /\ -Len(xs) <= idx
         THEN [kind |-> "ok", val |-> xs[Len(xs) + idx + 1]]
         ELSE [kind |-> "IndexError", val |-> <<>>]

RECURSIVE glob_extend(_, _, _)
glob_extend(files, d, tr) ==
    IF files = <<>> THEN <<>>
    ELSE idx2paths(Head(files), d, tr) \o glob_extend(Tail(files), d, tr)

\* wsj.py:139-149
all_files(files, d, tr, f) == py_filter(f, glob_extend(files, d, tr))

\* The outcome of a request: the operation, its argument, how it ended
\* ("ok" or the exception raised) and what it returned.
Outcome(op, arg, kind, val) == [op |-> op, arg |-> arg, kind |-> kind, val |-> val]

\* wsj.py:168-170; files is the value of self.all_files
wsj_len(files) == Outcome("len", 0, "ok", Len(files))

\* __getitem__ counting its items from one
wsj_getitem_fromone(files, tf, idx) ==
    LET item == py_getitem(files, idx - 1)
    IN  IF item.kind # "ok"
        THEN Outcome("getitem", idx, "IndexError", <<>>)
        ELSE Outcome("getitem", idx, "ok",
                     [audioread |-> path_join(root, item.val), transformed |-> tf])

\* wsj.py:172-185; files is the value of self.all_files.  audioread is an
\* external collaborator: the sample records the path it was called with
\* (an error it raises propagates and changes nothing).
wsj_getitem(files, tf, idx) ==
    LET item == py_getitem(files, idx)
    IN  IF item.kind # "ok"
        THEN Outcome("getitem", idx, "IndexError", <<>>)
        ELSE Outcome("getitem", idx, "ok",
                     [audioread |-> path_join(root, item.val), transformed |-> tf])

\* wsj.py:151-160; files is the value of self.all_files
wsj_str(files, tr) ==
    Outcome("str", 0, "ok",
            [partition |-> IF tr THEN "Train" ELSE "Test", total |-> Len(files)])

(***************************************************************************)
(* ASRWSJ (wsj.py:213-361).                                                *)
(***************************************************************************)
\* xs[-3:-1] and xs[-3:] of a list of at least three items
slice_m3_m1(xs) == SubSeq(xs, Len(xs) - 2, Len(xs) - 1)
slice_m3(xs) == SubSeq(xs, Len(xs) - 2, Len(xs))

\* a .dot file: its full path and its lines
DotFile(path, lines) == [path |-> path, lines |-> lines]

\* out[cond][sid] = e: the file's entries replace those of earlier files
store_update_replace(store, cond, sid, e) ==
    LET conds == IF cond \in DOMAIN store THEN store[cond] ELSE <<>>
    IN  dict_set(store, cond, dict_set(conds, sid, e))

\* out[cond][sid].update(e), the two levels created when missing
store_update(store, cond, sid, e) ==
    LET conds == IF cond \in DOMAIN store THEN store[cond] ELSE <<>>
        sids  == IF sid \in DOMAIN conds THEN conds[sid] ELSE <<>>
    IN  dict_set(store, cond, dict_set(conds, sid, dict_update(sids, e)))

\* wsj.py:260-283: [kind, val]; both branches run this loop over the files
\* of the partition's glob.
RECURSIVE transcripts_loop(_, _)
transcripts_loop(files, store) ==
    IF files = <<>> THEN [kind |-> "ok", val |-> store]
    ELSE LET key == slice_m3_m1(split_on(Head(files).path, "/"))
             e   == dot2transcripts(Head(files).lines)
         IN  IF e.kind # "ok" THEN [kind |-> e.kind, val |-> <<>>]
             ELSE transcripts_loop(Tail(files),
                                   store_update(store, key[1], key[2], e.val))

transcripts(files) == transcripts_loop(files, <<>>)

\* cond, sid, uid = fpath.split('/')[-3:]; uid = uid.split('.')[0]
path_key(fpath) ==
    LET k == slice_m3(split_on(fpath, "/"))
    IN  <<k[1], k[2], split_on(k[3], ".")[1]>>

\* whether store[cond][sid][uid] finds its key (it raises KeyError otherwise)
has_key(store, k) ==
    /\ k[1] \in DOMAIN store
    /\ k[2] \in DOMAIN store[k[1]]
    /\ k[3] \in DOMAIN store[k[1]][k[2]]

\* wsj.py:304-308
oov_add(tab, oov) ==
    [w \in DOMAIN tab \cup DOMAIN oov |->
        IF w \notin DOMAIN tab THEN oov[w]
        ELSE IF w \in DOMAIN oov THEN tab[w] + oov[w] ELSE tab[w]]

\* one pass of the loop that puts the index in front of the list
valid_step_prepend(fname, ii, d, st, tm, acc) ==
    LET fpath == path_join(root, fname)
        k     == path_key(fpath)
    IN  IF ~path_exists(d, fpath) THEN acc
        ELSE IF st.kind # "ok" THEN [acc EXCEPT !.kind = st.kind]
        ELSE IF ~has_key(st.val, k) THEN acc
        ELSE IF tm.transcribable[st.val[k[1]][k[2]][k[3]]]
             THEN [acc EXCEPT !.val = <<ii>> \o @]
             ELSE [acc EXCEPT
                      !.oovs = oov_add(@, tm.trans2oov[st.val[k[1]][k[2]][k[3]]])]

\* wsj.py:291-308: one pass of the loop, for the file at index ii (0-based);
\* acc is [kind, val, oovs].  st is what self.transcripts yields.
valid_step(fname, ii, d, st, tm, acc) ==
    LET fpath == path_join(root, fname)
        k     == path_key(fpath)
    IN  IF ~path_exists(d, fpath) THEN acc
        ELSE IF st.kind # "ok" THEN [acc EXCEPT !.kind = st.kind]
        ELSE IF ~has_key(st.val, k) THEN acc
        ELSE IF tm.transcribable[st.val[k[1]][k[2]][k[3]]]
             THEN [acc EXCEPT !.val = Append(@, ii)]
             ELSE [acc EXCEPT
                      !.oovs = oov_add(@, tm.trans2oov[st.val[k[1]][k[2]][k[3]]])]

\* wsj.py:290: the loop from index ii on; an exception ends it
RECURSIVE valid_loop(_, _, _, _, _, _)
valid_loop(files, ii, d, st, tm, acc) ==
    IF ii >= Len(files) \/ acc.kind # "ok" THEN acc
    ELSE valid_loop(files, ii + 1, d, st, tm,
                    valid_step(files[ii + 1], ii, d, st, tm, acc))

\* valid_files without line 289: the table is carried over from self.oovs
valid_files_noreset(files, d, st, tm) ==
    valid_loop(files, 0, d, st, tm, [kind |-> "ok", val |-> <<>>, oovs |-> oovs.tab])

\* wsj.py:285-309: [kind, val, oovs]; oovs is what self.oovs holds afterwards.
\* files is the value of self.dataset.all_files, st what self.transcripts yields.
valid_files(files, d, st, tm) ==
    valid_loop(files, 0, d, st, tm, [kind |-> "ok", val |-> <<>>, oovs |-> <<>>])

\* wsj.py:333-335; vf is the outcome of self.valid_files
asr_len(vf) ==
    IF vf.kind # "ok" THEN Outcome("len", 0, vf.kind, <<>>)
    ELSE Outcome("len", 0, "ok", Len(vf.val))

\* __getitem__ indexing the raw file list with idx itself
asr_getitem_direct(files, vf, st, tf, idx) ==
    IF vf.kind # "ok" THEN Outcome("getitem", idx, vf.kind, <<>>)
    ELSE LET vi == py_getitem(vf.val, idx)
         IN  IF vi.kind # "ok" THEN Outcome("getitem", idx, "IndexError", <<>>)
             ELSE LET fi == py_getitem(files, idx)
                  IN  IF fi.kind # "ok" THEN Outcome("getitem", idx, "IndexError", <<>>)
                      ELSE LET fpath == path_join(root, fi.val)
                               k     == path_key(fpath)
                           IN  IF st.kind # "ok" THEN Outcome("getitem", idx, st.kind, <<>>)
                               ELSE IF ~has_key(st.val, k)
                               THEN Outcome("getitem", idx, "KeyError", <<>>)
                               ELSE Outcome("getitem", idx, "ok",
                                        [audioread   |-> fpath,
                                         trans       |-> st.val[k[1]][k[2]][k[3]],
                                         trans2label |-> st.val[k[1]][k[2]][k[3]],
                                         transformed |-> tf])

\* wsj.py:337-361; files is the value of self.dataset.all_files, vf the
\* outcome of self.valid_files, st what self.transcripts yields.  trans2label
\* and audioread are external: the sample records what they were called with.
asr_getitem(files, vf, st, tf, idx) ==
    IF vf.kind # "ok" THEN Outcome("getitem", idx, vf.kind, <<>>)
    ELSE LET vi == py_getitem(vf.val, idx)
         IN  IF vi.kind # "ok" THEN Outcome("getitem", idx, "IndexError", <<>>)
             ELSE LET fi == py_getitem(files, vi.val)
                  IN  IF fi.kind # "ok" THEN Outcome("getitem", idx, "IndexError", <<>>)
                      ELSE LET fpath == path_join(root, fi.val)
                               k     == path_key(fpath)
                           IN  IF st.kind # "ok" THEN Outcome("getitem", idx, st.kind, <<>>)
                               ELSE IF ~has_key(st.val, k)
                               THEN Outcome("getitem", idx, "KeyError", <<>>)
                               ELSE Outcome("getitem", idx, "ok",
                                        [audioread   |-> fpath,
                                         trans       |-> st.val[k[1]][k[2]][k[3]],
                                         trans2label |-> st.val[k[1]][k[2]][k[3]],
                                         transformed |-> tf])

\* wsj.py:311-324; the examples are the first words of the table, at most five
asr_str(files, vf, tr) ==
    IF vf.kind # "ok" THEN Outcome("str", 0, vf.kind, <<>>)
    ELSE Outcome("str", 0, "ok",
                 [partition |-> IF tr THEN "Train" ELSE "Test",
                  total     |-> Len(files),
                  valid     |-> Len(vf.val),
                  noov      |-> Cardinality(DOMAIN vf.oovs)])

(***************************************************************************)
(* Inputs: the lines index and transcript files are made of.               *)
(***************************************************************************)
LineComment == <<";", "c">>
LineBlank   == <<>>
\* "1_2_3:c/s/u": an entry without extension, as the test indices have them
LineU == <<"1", "_", "2", "_", "3", ":", "c", "/", "s", "/", "u">>
\* "1_2_3:c/s/ v.wv1 ": an entry with extension, an embedded and a trailing space
LineV == <<"1", "_", "2", "_", "3", ":", "c", "/", "s", "/", " ", "v", ".", "w", "v", "1", " ">>
\* "1_2_3:d": an entry naming a directory
LineDir == <<"1", "_", "2", "_", "3", ":", "d">>

IdxLines == {LineComment, LineBlank, LineU, LineV, LineDir}

PathU  == <<"1", "-", "2", ".", "3", "/", "c", "/", "s", "/", "u">>
PathV  == <<"1", "-", "2", ".", "3", "/", "c", "/", "s", "/", "v", ".", "w", "v", "1">>
PathD  == <<"1", "-", "2", ".", "3", "/", "d">>

\* The files a disk state may hold: every variant idx2paths looks for.
IdxDiskFiles ==
    {path_join(root, p \o e) : p \in {PathU, PathV}, e \in {<<>>, WV1, WV2}}
        \cup {path_join(root, PathD \o <<"/", "f">>)}

\* "hello (u)", "a b (u)", "  x   y  (v) ", "(v)", "a b", "" and "   "
DotHelloU  == <<"h", "e", "l", "l", "o", " ", "(", "u", ")">>
DotABU     == <<"a", " ", "b", " ", "(", "u", ")">>
DotXYV     == <<" ", "x", " ", " ", "Y", " ", "(", "v", ")", " ">>
DotOnlyV   == <<"(", "v", ")">>
DotNoParen == <<"a", " ", "b">>
DotBlank   == <<>>
DotSpaces  == <<" ", " ">>

DotLines == {DotHelloU, DotABU, DotXYV, DotOnlyV, DotNoParen, DotBlank, DotSpaces}

(***************************************************************************)
(* Initial values of the variables a specification does not use.           *)
(***************************************************************************)
FixIdle == line = <<>> /\ fixed = NotCalled
DotIdle == dotlines = <<>> /\ parsed = NoOutcome
IdxIdle == idxlines = <<>> /\ out = NotCalled
DiskIdle == train = TRUE /\ disk = {}
NoRequest == Outcome("none", 0, "none", <<>>)
WsjIdle ==
    idxfiles = <<>> /\ filt = FiltNone /\ transform = FALSE /\ ret = NoRequest
NoMap == [transcribable |-> <<>>, trans2oov |-> <<>>]
OovsUnset == [set |-> FALSE, tab |-> <<>>]
AsrIdle == dotfiles = <<>> /\ transmap = NoMap /\ oovs = OovsUnset /\ nreq = 0

(***************************************************************************)
(* Specification SpecFix: fix_path applied to every short line.            *)
(***************************************************************************)
FixAlphabet == {" ", "_", ":", "a"}

InitFix ==
    /\ line \in SeqsUpTo(FixAlphabet, MaxLineLen)
    /\ fixed = NotCalled
    /\ pc = "start"
    /\ DotIdle /\ IdxIdle /\ DiskIdle /\ WsjIdle /\ AsrIdle

FixPathCall ==
    /\ pc = "start"
    /\ fixed' = fix_path(line)
    /\ pc' = "done"
    /\ UNCHANGED <<line, dotlines, parsed, idxlines, out, train, disk>>
    /\ UNCHANGED <<idxfiles, filt, transform, ret, dotfiles, transmap, oovs, nreq>>

NextFix == FixPathCall

SpecFix == InitFix /\ [][NextFix]_vars

(***************************************************************************)
(* Specification SpecDot: dot2transcripts applied to a transcript file.    *)
(***************************************************************************)
InitDot ==
    /\ dotlines \in SeqsUpTo(DotLines, MaxDotLines)
    /\ parsed = NoOutcome
    /\ pc = "start"
    /\ FixIdle /\ IdxIdle /\ DiskIdle /\ WsjIdle /\ AsrIdle

Dot2TranscriptsCall ==
    /\ pc = "start"
    /\ parsed' = dot2transcripts(dotlines)
    /\ pc' = "done"
    /\ UNCHANGED <<line, fixed, dotlines, idxlines, out, train, disk>>
    /\ UNCHANGED <<idxfiles, filt, transform, ret, dotfiles, transmap, oovs, nreq>>

NextDot == Dot2TranscriptsCall

SpecDot == InitDot /\ [][NextDot]_vars

(***************************************************************************)
(* Specification SpecIdx: idx2paths applied to an index file, in either    *)
(* mode, on every disk state.                                              *)
(***************************************************************************)
InitIdx ==
    /\ idxlines \in SeqsUpTo(IdxLines, MaxIdxLines)
    /\ disk \in SUBSET IdxDiskFiles
    /\ train \in BOOLEAN
    /\ out = NotCalled
    /\ pc = "start"
    /\ FixIdle /\ DotIdle /\ WsjIdle /\ AsrIdle

Idx2PathsCall ==
    /\ pc = "start"
    /\ out' = idx2paths(idxlines, disk, train)
    /\ pc' = "done"
    /\ UNCHANGED <<line, fixed, dotlines, parsed, idxlines, train, disk>>
    /\ UNCHANGED <<idxfiles, filt, transform, ret, dotfiles, transmap, oovs, nreq>>

NextIdx == Idx2PathsCall

SpecIdx == InitIdx /\ [][NextIdx]_vars

(***************************************************************************)
(* Specification SpecRaw: a WSJ dataset over a corpus on disk, asked for   *)
(* its length, its items and its summary in any order.  The disk and the   *)
(* configuration never change.                                             *)
(***************************************************************************)
RawLines == {LineBlank, LineU, LineV}
\* the disk states: the file of LineV is there, those of LineU may be
RawDiskFiles == {path_join(root, PathU \o WV1), path_join(root, PathU \o WV2)}
RawDisks == {d \cup {path_join(root, PathV)} : d \in SUBSET RawDiskFiles}
\* every path idx2paths can emit from RawLines
RawPaths == {<<>>, PathU \o WV1, PathU \o WV2, PathV}
IdxNames == {"a.ndx", "b.ndx"}
Filters ==
    {FiltNone, Callable(RawPaths), Callable({}), Callable({PathV, PathU \o WV2})}
IndexArgs == (-(MaxIndex + 1))..MaxIndex

PureIdle == FixIdle /\ DotIdle /\ IdxIdle /\ pc = "dataset"

InitRaw ==
    /\ idxfiles \in SeqsUpTo(SeqsUpTo(RawLines, MaxFileLines), Cardinality(IdxNames))
    /\ disk \in RawDisks
    /\ train \in BOOLEAN
    /\ filt \in Filters
    /\ transform \in BOOLEAN
    /\ ret = NoRequest
    /\ PureIdle /\ AsrIdle

Config == <<line, fixed, dotlines, parsed, idxlines, out, pc, train, disk,
            idxfiles, filt, transform, dotfiles, transmap>>

WSJLen ==
    /\ \E files \in {all_files(idxfiles, disk, train, filt)} : ret' = wsj_len(files)
    /\ UNCHANGED <<Config, oovs, nreq>>

WSJGetItem ==
    /\ \E files \in {all_files(idxfiles, disk, train, filt)} :
       \E idx \in IndexArgs : ret' = wsj_getitem(files, transform, idx)
    /\ UNCHANGED <<Config, oovs, nreq>>

WSJStr ==
    /\ \E files \in {all_files(idxfiles, disk, train, filt)} : ret' = wsj_str(files, train)
    /\ UNCHANGED <<Config, oovs, nreq>>

NextRaw == WSJLen \/ WSJGetItem \/ WSJStr

SpecRaw == InitRaw /\ [][NextRaw]_vars

(***************************************************************************)
(* Specification SpecTrans: the transcripts property read over the .dot    *)
(* files of a partition.                                                   *)
(***************************************************************************)
\* "/r/t/c/s/a.dot", "/r/t/c/s/b.dot" (same condition and speaker) and
\* "/r/t/c/z/a.dot" (another speaker)
DotPathA == <<"/", "r", "/", "t", "/", "c", "/", "s", "/", "a", ".", "d", "o", "t">>
DotPathB == <<"/", "r", "/", "t", "/", "c", "/", "s", "/", "b", ".", "d", "o", "t">>
DotPathZ == <<"/", "r", "/", "t", "/", "c", "/", "z", "/", "a", ".", "d", "o", "t">>
DotPaths == {DotPathA, DotPathB, DotPathZ}

\* "x (u)", "y (u)", "y (v)"
DotXU == <<"x", " ", "(", "u", ")">>
DotYU == <<"y", " ", "(", "u", ")">>
DotYV == <<"y", " ", "(", "v", ")">>
TransLines == {DotXU, DotYU, DotYV, DotBlank}

\* the files the glob may find: any lines in the two files of speaker s,
\* one line in the file of speaker z
TransFiles ==
    {DotFile(p, ls) : p \in {DotPathA, DotPathB},
                      ls \in SeqsUpTo(TransLines, MaxFileLines)}
        \cup {DotFile(DotPathZ, <<l>>) : l \in {DotXU, DotYV}}

\* the glob yields each file once, in any order
GlobOrders(files) ==
    {fs \in SeqsUpTo(files, Cardinality(DotPaths)) :
        \A i, j \in 1..Len(fs) : i # j => fs[i].path # fs[j].path}

InitTrans ==
    /\ dotfiles \in GlobOrders(TransFiles)
    /\ train \in BOOLEAN
    /\ disk = {} /\ ret = NoRequest
    /\ idxfiles = <<>> /\ filt = FiltNone /\ transform = FALSE
    /\ transmap = NoMap /\ oovs = OovsUnset /\ nreq = 0
    /\ FixIdle /\ DotIdle /\ IdxIdle /\ pc = "start"

TranscriptsRead ==
    /\ pc = "start"
    /\ LET st == transcripts(dotfiles)
       IN  ret' = Outcome("transcripts", 0, st.kind, st.val)
    /\ pc' = "done"
    /\ UNCHANGED <<line, fixed, dotlines, parsed, idxlines, out, train, disk,
                   idxfiles, filt, transform, dotfiles, transmap, oovs, nreq>>

NextTrans == TranscriptsRead

SpecTrans == InitTrans /\ [][NextTrans]_vars

(***************************************************************************)
(* Specification SpecAsr: an ASRWSJ dataset over a WSJ dataset, asked for  *)
(* its length, its items, its summary and its valid_files in any order, on *)
(* an unchanged disk.                                                      *)
(***************************************************************************)
AsrLines == {LineU, LineV}
AsrDisk == {path_join(root, PathU \o WV1), path_join(root, PathV)}
AsrFilters == {FiltNone, Callable(RawPaths)}
AsrIndexArgs == (-1)..MaxIndex

\* what the transcript glob may yield
AsrDotFiles ==
    { <<>>,
      <<DotFile(DotPathA, <<DotXU, DotYV>>)>>,
      <<DotFile(DotPathA, <<DotXU>>), DotFile(DotPathB, <<DotYU>>)>>,
      <<DotFile(DotPathZ, <<DotXU>>), DotFile(DotPathA, <<DotYV>>)>>,
      <<DotFile(DotPathA, <<DotXU, DotBlank>>)>> }

\* the transcripts those files hold, and the words a collaborator may count
Texts == {<<"X">>, <<"Y">>}
OovX == [w \in {"X"} |-> 1]
OovXY == [w \in {"X", "Y"} |-> IF w = "X" THEN 2 ELSE 1]
OovTables ==
    { [t \in Texts |-> IF t = <<"X">> THEN OovX ELSE OovXY],
      [t \in Texts |-> IF t = <<"X">> THEN OovXY ELSE <<>>] }
TransMaps ==
    {[transcribable |-> tb, trans2oov |-> t2o] :
        tb \in [Texts -> BOOLEAN], t2o \in OovTables}

InitAsr ==
    /\ idxfiles \in {<<ls>> : ls \in SeqsUpTo(AsrLines, MaxFileLines + 1)}
    /\ disk = AsrDisk
    /\ train \in BOOLEAN
    /\ filt \in AsrFilters
    /\ transform = FALSE
    /\ dotfiles \in AsrDotFiles
    /\ transmap \in TransMaps
    /\ oovs = OovsUnset
    /\ ret = NoRequest
    /\ nreq = 0
    /\ PureIdle

\* Each request reads self.dataset.all_files, self.transcripts and
\* self.valid_files; valid_files assigns self.oovs before it returns or raises.
ASRLen ==
    /\ nreq < MaxRequests
    /\ \E files \in {all_files(idxfiles, disk, train, filt)} :
       \E vf \in {valid_files(files, disk, transcripts(dotfiles), transmap)} :
           /\ ret' = asr_len(vf)
           /\ oovs' = [set |-> TRUE, tab |-> vf.oovs]
    /\ nreq' = nreq + 1
    /\ UNCHANGED Config

ASRGetItem ==
    /\ nreq < MaxRequests
    /\ \E files \in {all_files(idxfiles, disk, train, filt)} :
       \E st \in {transcripts(dotfiles)} :
       \E vf \in {valid_files(files, disk, st, transmap)} :
           /\ \E idx \in AsrIndexArgs : ret' = asr_getitem(files, vf, st, transform, idx)
           /\ oovs' = [set |-> TRUE, tab |-> vf.oovs]
    /\ nreq' = nreq + 1
    /\ UNCHANGED Config

ASRStr ==
    /\ nreq < MaxRequests
    /\ \E files \in {all_files(idxfiles, disk, train, filt)} :
       \E vf \in {valid_files(files, disk, transcripts(dotfiles), transmap)} :
           /\ ret' = asr_str(files, vf, train)
           /\ oovs' = [set |-> TRUE, tab |-> vf.oovs]
    /\ nreq' = nreq + 1
    /\ UNCHANGED Config

ASRValidFiles ==
    /\ nreq < MaxRequests
    /\ \E files \in {all_files(idxfiles, disk, train, filt)} :
       \E vf \in {valid_files(files, disk, transcripts(dotfiles), transmap)} :
           /\ ret' = Outcome("valid_files", 0, vf.kind, vf.val)
           /\ oovs' = [set |-> TRUE, tab |-> vf.oovs]
    /\ nreq' = nreq + 1
    /\ UNCHANGED Config

NextAsr == ASRLen \/ ASRGetItem \/ ASRStr \/ ASRValidFiles

SpecAsr == InitAsr /\ [][NextAsr]_vars

(***************************************************************************)
(* Notions the claims are stated in, defined apart from the operators      *)
(* above.                                                                  *)
(***************************************************************************)
Count(s, ch) == Cardinality({i \in 1..Len(s) : s[i] = ch})

\* position of the first ch in s, 0 when there is none
FirstOf(s, ch) ==
    IF \E i \in 1..Len(s) : s[i] = ch
    THEN CHOOSE i \in 1..Len(s) : s[i] = ch /\ \A j \in 1..(i - 1) : s[j] # ch
    ELSE 0

PutAt(s, i, ch) == IF i = 0 THEN s ELSE [s EXCEPT ![i] = ch]

RECURSIVE Flatten(_)
Flatten(ss) == IF ss = <<>> THEN <<>> ELSE Head(ss) \o Flatten(Tail(ss))

IsComment(l) == Len(l) >= 1 /\ l[1] = ";"
NonComment(lines) == SelectSeq(lines, LAMBDA l : ~IsComment(l))

\* the resolved path of an index line
Resolved(l) == fix_path(strip(l))
ExistsUnderRoot(p) == path_exists(disk, path_join(root, p))

\* The maximal runs of non-space characters of s, left to right.
WordStarts(s) ==
    {i \in 1..Len(s) : s[i] # " " /\ (i = 1 \/ s[i - 1] = " ")}
WordEnd(s, i) ==
    CHOOSE j \in i..Len(s) :
        /\ \A k \in i..j : s[k] # " "
        /\ (j = Len(s) \/ s[j + 1] = " ")
NthStart(s, n) ==
    CHOOSE i \in WordStarts(s) :
        Cardinality({k \in WordStarts(s) : k < i}) = n - 1
WordsOf(s) ==
    [n \in 1..Cardinality(WordStarts(s)) |->
        SubSeq(s, NthStart(s, n), WordEnd(s, NthStart(s, n)))]

(***************************************************************************)
(* C1                                                                      *)
(***************************************************************************)
C1_Steps(s) ==
    LET a == SelectSeq(s, LAMBDA ch : ch # " ")
        b == PutAt(a, FirstOf(a, "_"), "-")
        c == PutAt(b, FirstOf(b, "_"), ".")
    IN  PutAt(c, FirstOf(c, ":"), "/")

Minus(a, b) == IF a >= b THEN a - b ELSE 0

\* C1: fix_path returns the line with all spaces removed, then the first
\* underscore made a hyphen, then the first remaining underscore a period,
\* then the first colon a slash; later underscores and colons stay, and
\* "1_2_3:corpA/x" resolves to "1-2.3/corpA/x".
C1_FixPathSteps ==
    /\ pc = "done" =>
          /\ fixed = C1_Steps(line)
          /\ Count(fixed, "_") = Minus(Count(line, "_"), 2)
          /\ Count(fixed, ":") = Minus(Count(line, ":"), 1)
          /\ Count(fixed, " ") = 0
    /\ fix_path(<<"1", "_", "2", "_", "3", ":", "c", "o", "r", "p", "A", "/", "x">>)
          = <<"1", "-", "2", ".", "3", "/", "c", "o", "r", "p", "A", "/", "x">>

\* a line with a space, three underscores and two colons has been resolved
C1_Witness ==
    /\ pc = "done"
    /\ Count(line, " ") >= 1
    /\ Count(line, "_") >= 3
    /\ Count(line, ":") >= 2
    /\ Count(fixed, "_") = 1
    /\ Count(fixed, ":") = 1

(***************************************************************************)
(* C2                                                                      *)
(***************************************************************************)
Variants(p) == <<p, p \o WV1, p \o WV2>>

C2_Emitted(l) ==
    IF IsComment(l) THEN <<>>
    ELSE LET v == Variants(Resolved(l))
         IN  IF \A k \in 1..3 : ~ExistsUnderRoot(v[k]) THEN <<>>
             ELSE <<v[CHOOSE k \in 1..3 :
                        /\ ExistsUnderRoot(v[k])
                        /\ \A j \in 1..(k - 1) : ~ExistsUnderRoot(v[j])]>>

\* C2: in test mode idx2paths emits, per non-comment line, the first of p,
\* p.wv1, p.wv2 that exists under the root and nothing when none exists, so
\* every emitted path exists and is a variant of some line.
C2_TestModeFirstExisting ==
    (pc = "done" /\ ~train) =>
        /\ out = Flatten([i \in 1..Len(idxlines) |-> C2_Emitted(idxlines[i])])
        /\ \A i \in 1..Len(out) :
              /\ ExistsUnderRoot(out[i])
              /\ \E j \in 1..Len(idxlines) :
                    /\ ~IsComment(idxlines[j])
                    /\ \E k \in 1..3 : out[i] = Variants(Resolved(idxlines[j]))[k]

\* test mode has emitted a .wv2 fallback and a path as written, and dropped a line
C2_Witness ==
    /\ pc = "done" /\ ~train
    /\ path_join(root, PathU \o WV1) \notin disk
    /\ out = <<PathU \o WV2, PathV>>
    /\ Len(NonComment(idxlines)) = 3

(***************************************************************************)
(* C3                                                                      *)
(***************************************************************************)
\* C3: in train mode idx2paths returns the resolved paths of the non-comment
\* lines that exist under the root, in file order, nothing appended; comment
\* lines give nothing, so there are at most as many paths as non-comment lines.
C3_TrainModeVerified ==
    (pc = "done" /\ train) =>
        /\ out = SelectSeq([i \in 1..Len(NonComment(idxlines)) |->
                                Resolved(NonComment(idxlines)[i])],
                           ExistsUnderRoot)
        /\ Len(out) <= Len(NonComment(idxlines))

\* train mode has kept a path, dropped an extension-less entry whose .wv1
\* file exists, and skipped a comment line
C3_Witness ==
    /\ pc = "done" /\ train /\ out = <<PathV>>
    /\ path_join(root, PathU \o WV1) \in disk
    /\ \E i \in 1..Len(idxlines) : idxlines[i] = LineU
    /\ \E i \in 1..Len(idxlines) : idxlines[i] = LineComment

(***************************************************************************)
(* C7                                                                      *)
(***************************************************************************)
WellFormed(l) ==
    LET w == WordsOf(l)
    IN  /\ Len(w) >= 1
        /\ Len(w[Len(w)]) >= 2
        /\ w[Len(w)][1] = "("
        /\ w[Len(w)][Len(w[Len(w)])] = ")"

C7_Key(l) == LET t == WordsOf(l)[Len(WordsOf(l))] IN SubSeq(t, 2, Len(t) - 1)
C7_Value(l) ==
    LET w == WordsOf(l)
    IN  upper(Flatten([i \in 1..(Len(w) - 1) |->
                          IF i = 1 THEN w[i] ELSE <<" ">> \o w[i]]))

\* the dict the lines describe: per key, the value of the last line with it
C7_Dict(lines) ==
    [k \in {C7_Key(lines[i]) : i \in 1..Len(lines)} |->
        C7_Value(lines[CHOOSE i \in 1..Len(lines) :
                          /\ C7_Key(lines[i]) = k
                          /\ \A j \in (i + 1)..Len(lines) : C7_Key(lines[j]) # k])]

\* C7 as claimed: well-formed lines give key and upper-cased value, and any
\* line without a trailing parenthesized token makes the parse fail.
C7_Original ==
    pc = "done" =>
        IF \A i \in 1..Len(dotlines) : WellFormed(dotlines[i])
        THEN parsed = [kind |-> "ok", val |-> C7_Dict(dotlines)]
        ELSE parsed.kind # "ok"

\* C7 as amended: the parse fails exactly when some line has no token at
\* all; every other line, parenthesized or not, gives an entry whose key is
\* its last token without its first and last character and whose value is
\* the other tokens joined by single spaces and upper-cased.
C7_ParseOrFailOnEmptyLine ==
    /\ pc = "done" =>
          IF \E i \in 1..Len(dotlines) : WordsOf(dotlines[i]) = <<>>
          THEN parsed.kind = "IndexError"
          ELSE parsed = [kind |-> "ok", val |-> C7_Dict(dotlines)]
    /\ dot2transcripts(<<
          <<"H", "E", "L", "L", "O", " ", "W", "O", "R", "L", "D", " ",
            "(", "u", "t", "t", "0", "1", ")">> >>)
          = [kind |-> "ok",
             val |-> [k \in {<<"u", "t", "t", "0", "1">>} |->
                         <<"H", "E", "L", "L", "O", " ", "W", "O", "R", "L", "D">>]]

\* a file with a well-formed line and a line without parentheses has parsed
C7_Witness ==
    /\ pc = "done" /\ parsed.kind = "ok"
    /\ \E i \in 1..Len(dotlines) : dotlines[i] = DotNoParen
    /\ \E i \in 1..Len(dotlines) : dotlines[i] = DotHelloU
    /\ <<"u">> \in DOMAIN parsed.val
    /\ parsed.val[<<"u">>] = <<"H", "E", "L", "L", "O">>

(***************************************************************************)
(* The dataset claims: the raw file list, the store and the valid indices  *)
(* of the current configuration.                                           *)
(***************************************************************************)
\* what IndexFileReader emits for the partition's index files, in glob order
Emitted == Flatten([i \in 1..Len(idxfiles) |-> idx2paths(idxfiles[i], disk, train)])
\* RawDataset's file list
RawList == all_files(idxfiles, disk, train, filt)
Store == transcripts(dotfiles)
KeyOf(p) == path_key(path_join(root, p))
Lookup(store, k) == store[k[1]][k[2]][k[3]]
\* the transcript the store st holds for the raw path p, if it has one
Transcript(st, p) == Lookup(st.val, KeyOf(p))
HasTranscript(st, p) == st.kind = "ok" /\ has_key(st.val, KeyOf(p))
\* the indices (0-based) of the file list raw with a transcribable
\* transcript in st, and those whose transcript is rejected
ValidSet(raw, st) ==
    {j \in 0..(Len(raw) - 1) :
        HasTranscript(st, raw[j + 1])
            /\ transmap.transcribable[Transcript(st, raw[j + 1])]}
RejectedSet(raw, st) ==
    {j \in 0..(Len(raw) - 1) :
        HasTranscript(st, raw[j + 1])
            /\ ~transmap.transcribable[Transcript(st, raw[j + 1])]}
\* the n-th smallest member of a set of numbers
Nth(S, n) == CHOOSE x \in S : Cardinality({y \in S : y < x}) = n - 1
\* valid_files can be computed: no transcript file fails to parse under it
Computable(raw, st) == st.kind = "ok" \/ raw = <<>>

RECURSIVE SumOver(_, _, _)
SumOver(S, f(_), acc) ==
    IF S = {} THEN acc
    ELSE LET x == CHOOSE y \in S : TRUE IN SumOver(S \ {x}, f, acc + f(x))

(***************************************************************************)
(* C4                                                                      *)
(***************************************************************************)
\* C4: the valid indices are strictly increasing integers in
\* [0, len(RawDataset)), len(AsrDataset) is their number, and so
\* len(AsrDataset) <= len(RawDataset).
C4_ValidIndicesIncreasing ==
    (ret.op \in {"valid_files", "len", "str"} /\ ret.kind = "ok") =>
        \A raw \in {RawList} : \A valid \in {ValidSet(raw, Store)} :
            /\ ret.op = "valid_files" =>
                  /\ \A i \in 1..Len(ret.val) :
                        /\ ret.val[i] \in 0..(Len(raw) - 1)
                        /\ i > 1 => ret.val[i - 1] < ret.val[i]
                  /\ Len(ret.val) = Cardinality(valid)
            /\ ret.op = "len" =>
                  /\ ret.val = Cardinality(valid)
                  /\ ret.val <= Len(raw)
            /\ ret.op = "str" =>
                  /\ ret.val.valid = Cardinality(valid)
                  /\ ret.val.valid <= ret.val.total

\* valid_files has returned two indices
C4_Witness ==
    /\ ret.op = "valid_files" /\ ret.kind = "ok"
    /\ ret.val = <<0, 1>>

(***************************************************************************)
(* C5                                                                      *)
(***************************************************************************)
C5_Count(oov, w) == IF w \in DOMAIN oov THEN oov[w] ELSE 0

\* the table summed over the rejected entries of raw, given as the set of
\* pairs <<index, counts of the entry's transcript>>
C5_Table(raw, st) ==
    IF ~Computable(raw, st) THEN <<>>
    ELSE LET counts == {<<j, transmap.trans2oov[Transcript(st, raw[j + 1])]>> :
                           j \in RejectedSet(raw, st)}
         IN  [w \in UNION {DOMAIN c[2] : c \in counts} |->
                 SumOver(counts, LAMBDA c : C5_Count(c[2], w), 0)]

\* C5: after any sequence of length, item and summary requests the OOV table
\* is, per word, the sum of the collaborator's counts over the entries that
\* have a transcript and were rejected in the latest computation; nothing
\* else contributes and nothing is carried over from earlier requests.
C5_OovTableRebuilt ==
    /\ nreq = 0 => ~oovs.set
    /\ nreq > 0 => (oovs.set /\ \A st \in {Store} : oovs.tab = C5_Table(RawList, st))

\* after two requests the table holds the counts of two rejected entries
C5_Witness ==
    /\ nreq = 2
    /\ oovs.set
    /\ oovs.tab = [w \in {"X"} |-> 2]
    /\ Cardinality(RejectedSet(RawList, Store)) = 2

(***************************************************************************)
(* C10                                                                     *)
(***************************************************************************)
\* C10: for 0 <= i < len(AsrDataset), item(i) resolves to the raw file at
\* position valid_indices[i], finds its key in the transcript store, and
\* returns the transcript the valid-index computation accepted there, which
\* the collaborator reports as transcribable.
C10_ItemFindsAcceptedTranscript ==
    (ret.op = "getitem" /\ 0 <= ret.arg) =>
        \A raw \in {RawList} : \A st \in {Store} : \A valid \in {ValidSet(raw, st)} :
            (Computable(raw, st) /\ ret.arg < Cardinality(valid)) =>
                \A p \in {raw[Nth(valid, ret.arg + 1) + 1]} :
                    /\ ret.kind = "ok"
                    /\ ret.val.audioread = path_join(root, p)
                    /\ HasTranscript(st, p)
                    /\ ret.val.trans = Transcript(st, p)
                    /\ transmap.transcribable[ret.val.trans]

\* item(0) has resolved to the second raw file, the first one not being valid
C10_Witness ==
    /\ ret.op = "getitem" /\ ret.arg = 0 /\ ret.kind = "ok"
    /\ Len(RawList) = 2
    /\ RawList[1] # RawList[2]
    /\ ret.val.audioread = path_join(root, RawList[2])
    /\ HasTranscript(Store, RawList[1])

C8_FileList ==
    IF filt.kind = "None" THEN Emitted
    ELSE SelectSeq(Emitted, LAMBDA p : p \in filt.accept)

\* C8: the file list is the concatenation, in glob order, of what
\* IndexFileReader emits, restricted to the paths the filter accepts; with no
\* filter every emitted path is in it and length() is the number emitted.
C8_Original ==
    /\ ret.op = "len" => ret.val = Len(C8_FileList)
    /\ ret.op = "str" => ret.val.total = Len(C8_FileList)
    /\ (ret.op = "getitem" /\ 0 <= ret.arg /\ ret.arg < Len(C8_FileList)) =>
          /\ ret.kind = "ok"
          /\ ret.val.audioread = path_join(root, C8_FileList[ret.arg + 1])

(***************************************************************************)
(* C9                                                                      *)
(***************************************************************************)
Segments(p) == split_on(p, "/")
\* the two segments before the file's name: its directory and that one's parent
C9_KeyByOwnDirectory(p) ==
    <<Segments(p)[Len(Segments(p)) - 2], Segments(p)[Len(Segments(p)) - 1]>>
\* the two segments before the file's own directory
C9_KeyBeforeOwnDirectory(p) ==
    <<Segments(p)[Len(Segments(p)) - 3], Segments(p)[Len(Segments(p)) - 2]>>

AllParse == \A i \in 1..Len(dotfiles) : dot2transcripts(dotfiles[i].lines).kind = "ok"
Entries(i) == dot2transcripts(dotfiles[i].lines).val

\* the store that files every entry under Key(path), the last file winning
C9_Store(Key(_)) ==
    LET keys == {Key(dotfiles[i].path) : i \in 1..Len(dotfiles)}
        hold(c, sp, u) == {i \in 1..Len(dotfiles) :
                             Key(dotfiles[i].path) = <<c, sp>> /\ u \in DOMAIN Entries(i)}
        last(S) == CHOOSE i \in S : \A j \in S : j <= i
    IN  [c \in {k[1] : k \in keys} |->
           [sp \in {k[2] : k \in {x \in keys : x[1] = c}} |->
              [u \in UNION {DOMAIN Entries(i) :
                              i \in {n \in 1..Len(dotfiles) :
                                        Key(dotfiles[n].path) = <<c, sp>>}} |->
                  Entries(last(hold(c, sp, u)))[u]]]]

\* C9 as claimed: condition and speaker are the two path segments before
\* the file's own directory.
C9_Original ==
    (pc = "done" /\ AllParse) =>
        ret = Outcome("transcripts", 0, "ok", C9_Store(C9_KeyBeforeOwnDirectory))

\* C9 as amended: every entry of each transcript file is filed under the
\* condition and speaker taken from the two path segments before the file's
\* name (the file's own directory is the speaker, its parent the condition),
\* and a later-parsed file overwrites an earlier one for the same key.
C9_StoreMergedByDirectory ==
    (pc = "done" /\ AllParse) =>
        ret = Outcome("transcripts", 0, "ok", C9_Store(C9_KeyByOwnDirectory))

\* three files were merged: two of one speaker, the later one overwriting
\* the earlier one's entry, and one of another speaker
C9_Witness ==
    /\ pc = "done" /\ ret.kind = "ok" /\ Len(dotfiles) = 3
    /\ dotfiles[1] = DotFile(DotPathA, <<DotXU>>)
    /\ dotfiles[2] = DotFile(DotPathB, <<DotYU>>)
    /\ dotfiles[3] = DotFile(DotPathZ, <<DotYV>>)
    /\ ret.val[<<"c">>][<<"s">>][<<"u">>] = <<"Y">>
    /\ ret.val[<<"c">>][<<"z">>][<<"v">>] = <<"Y">>

====
